---- MODULE Spec2Model ----
(***************************************************************************)
(* Model of api/all-courses.js: a serverless handler that fans out to the  *)
(* source adapters, waits for all of them to settle, flattens the          *)
(* fulfilled results in promise-list order, deduplicates by key and sends  *)
(* one JSON response.                                                      *)
(***************************************************************************)
EXTENDS Naturals, Sequences, FiniteSets

(***************************************************************************)
(* JavaScript values, as far as the handler distinguishes them.  A value   *)
(* is a record [k, s]: k is the kind, s the text of a string or number.    *)
(* BadObj is an object decoded from JSON whose own "toString" member is    *)
(* not callable, e.g. {"toString": 1}.                                     *)
(***************************************************************************)
Undef == [k |-> "undef", s |-> ""]
Null == [k |-> "null", s |-> ""]
BadObj == [k |-> "obj", s |-> ""]
Str(x) == [k |-> "str", s |-> x]
Num(x) == [k |-> "num", s |-> x]

\* JavaScript truthiness: undefined, null, "" and 0 are falsy.
Truthy(v) ==
  CASE v.k = "str" -> v.s # ""
    [] v.k = "num" -> v.s # "0"
    [] v.k = "obj" -> TRUE
    [] OTHER -> FALSE

\* a || b
Or(a, b) == IF Truthy(a) THEN a ELSE b

\* v.toString() is callable on strings and numbers; on undefined, null and BadObj
\* the call raises a TypeError.
CanToString(v) == v.k \in {"str", "num"}
JsToString(v) == v.s

\* Interpolating v into a template literal: BadObj raises, the others give text.
CanInterpolate(v) == v.k # "obj"
Interpolate(v) ==
  CASE v.k = "undef" -> "undefined"
    [] v.k = "null" -> "null"
    [] OTHER -> v.s

(***************************************************************************)
(* Bounds and input domains.                                               *)
(***************************************************************************)
\* Longest list an upstream service returns.
MaxItems == 1
\* Longest combined sequence the deduplication is applied to on its own.
MaxLen == 3

\* Sequences over S of length at most n.
SeqUpTo(S, n) == UNION {[1..m -> S] : m \in 0..n}

\* Values Math.random() may return (a finite sample of [0, 1), 0 included).
RandomVals == {Num("0"), Num("0.5")}

FccImage == "https://design-style-guide.freecodecamp.org/downloads/fcc_secondary_small.svg"
FccUrl == "https://www.freecodecamp.org/learn"
DefaultHost == "udemy-paid-courses-for-free-api.p.rapidapi.com"

CourseRecord(t, d, i, u, p, f) ==
  [title |-> t, description |-> d, image |-> i, url |-> u, platform |-> p, free |-> f]

(***************************************************************************)
(* What an upstream service answers.  A fetch either rejects (network      *)
(* error), resolves with ok = false, or resolves with ok = true; the body  *)
(* is then read with r.json() or r.text().  A body is [kind, items]:       *)
(*   "unparsable"  reading the body rejects;                               *)
(*   "null"        the JSON value null (for the feed: text without items); *)
(*   "empty"       the JSON object {} without the expected member;         *)
(*   "list"        the expected shape, carrying items.                     *)
(***************************************************************************)
Body(kind, items) == [kind |-> kind, items |-> items]

FetchOutcomes == {"reject", "notok", "ok"}

\* Elements of the Coursera catalogue answer.
CourseraRaw ==
  { [name |-> Str("Intro"), title |-> Undef, description |-> Undef, subtitle |-> Str("sub"),
     photoUrl |-> Undef, slug |-> Str("intro")],
    [name |-> Undef, title |-> Undef, description |-> Undef, subtitle |-> Undef,
     photoUrl |-> Undef, slug |-> Undef] }

\* Entries of the Class Central list.
ClassCentralRaw ==
  { [title |-> Str("Learn to code"), description |-> Undef, image |-> Undef, url |-> Str(FccUrl)],
    [title |-> Str("Odd"), description |-> Undef, image |-> Undef, url |-> BadObj] }

\* The freeCodeCamp challenge object.
FreeCodeCampRaw ==
  { [title |-> Str("Basics"), description |-> Undef] }

\* Items of the GeeksforGeeks feed: the three groups the item pattern captures,
\* each a sequence of tokens, a token being a markup tag or a run of text.
Tag(x) == [tag |-> TRUE, text |-> x]
Txt(x) == [tag |-> FALSE, text |-> x]

GeeksForGeeksRaw ==
  { [title |-> <<Tag("<b>"), Txt("Python intro"), Tag("</b>")>>,
     link |-> <<Txt("https://example.org/c1")>>,
     description |-> <<Tag("<p>"), Txt("Basics"), Tag("</p>")>>] }

\* Courses of the Udemy answer.
UdemyRaw ==
  { [title |-> Str("Python"), name |-> Undef, headline |-> Undef, description |-> Undef,
     image_480x270 |-> Undef, image_240x135 |-> Undef,
     url |-> Str("https://example.org/c1"), coupon |-> Undef] }

Bodies(Raw) ==
  {Body("unparsable", <<>>), Body("null", <<>>), Body("empty", <<>>)}
    \cup {Body("list", items) : items \in SeqUpTo(Raw, MaxItems)}

\* The freeCodeCamp resource is one object, not a list.
FreeCodeCampBodies ==
  {Body("unparsable", <<>>), Body("null", <<>>), Body("empty", <<>>)}
    \cup {Body("list", <<c>>) : c \in FreeCodeCampRaw}

\* s.toLowerCase() and s.includes(q) on the strings of the model.
ToLowerCase(s) ==
  CASE s = "Python intro" -> "python intro"
    [] s = "Basics" -> "basics"
    [] OTHER -> s

Includes(s, sub) ==
  \/ sub = ""
  \/ s = sub
  \/ <<s, sub>> \in {<<"python intro", "python">>, <<"python intro", "intro">>}

(***************************************************************************)
(* The source adapters.  The body of an adapter's try block either raises  *)
(* or returns a list; Threw and Return are its two outcomes.               *)
(***************************************************************************)
Threw == [threw |-> TRUE, value |-> <<>>]
Return(v) == [threw |-> FALSE, value |-> v]

\* xs.map(f): raises[i] tells whether f raises on xs[i], mapped[i] is f(xs[i]).
MapOrThrow(raises, mapped) ==
  IF \E i \in DOMAIN raises : raises[i] THEN Threw ELSE Return(mapped)

CourseraItem(c) ==
  CourseRecord(Or(c.name, c.title),
               Or(Or(c.description, c.subtitle), Str("")),
               Or(c.photoUrl, Null),
               IF Truthy(c.slug)
                 THEN Str("https://www.coursera.org/learn/" \o Interpolate(c.slug))
                 ELSE Null,
               "Coursera", TRUE)
CourseraItemRaises(c) == Truthy(c.slug) /\ ~CanInterpolate(c.slug)

\* getCoursera after its fetch resolved with ok = true and a body b.
getCoursera(b) ==
  CASE b.kind = "unparsable" -> Threw
    [] b.kind = "null" -> Threw
    [] b.kind = "empty" -> Return(<<>>)
    [] OTHER -> MapOrThrow([i \in DOMAIN b.items |-> CourseraItemRaises(b.items[i])],
                           [i \in DOMAIN b.items |-> CourseraItem(b.items[i])])

ClassCentralItem(c) ==
  CourseRecord(c.title, Or(c.description, Str("")), Or(c.image, Null), Or(c.url, Null),
               "Class Central", TRUE)

\* getClassCentral after its fetch resolved with ok = true and a body b.
getClassCentral(b) ==
  CASE b.kind = "unparsable" -> Threw
    [] b.kind = "null" -> Return(<<>>)
    [] b.kind = "empty" -> Threw
    [] OTHER -> MapOrThrow([i \in DOMAIN b.items |-> FALSE],
                           [i \in DOMAIN b.items |-> ClassCentralItem(b.items[i])])

FccNotOkRecord ==
  CourseRecord(Str("freeCodeCamp Learn"),
               Str("freeCodeCamp's self-paced curriculum (Responsive Web Design, JavaScript Algorithms, Front End Libraries, etc.)"),
               Str(FccImage), Str(FccUrl), "freeCodeCamp", TRUE)
FccCatchRecord ==
  CourseRecord(Str("freeCodeCamp: Learn"), Str("freeCodeCamp curriculum"),
               Str(FccImage), Str(FccUrl), "freeCodeCamp", TRUE)
FreeCodeCampItem(data) ==
  CourseRecord(Or(data.title, Str("freeCodeCamp: Learn")),
               Or(data.description, Str("freeCodeCamp curriculum")),
               Str(FccImage), Str(FccUrl), "freeCodeCamp", TRUE)

\* getFreeCodeCamp after its fetch resolved with ok = true and a body b.
getFreeCodeCamp(b) ==
  CASE b.kind = "unparsable" -> Threw
    [] b.kind = "null" -> Threw
    [] b.kind = "empty" -> Return(<<FreeCodeCampItem([title |-> Undef, description |-> Undef])>>)
    [] OTHER -> Return(<<FreeCodeCampItem(b.items[1])>>)

\* s.replace(/<[^>]*>/g, ""): the tags go, the text runs are joined.
RECURSIVE stripTags(_)
stripTags(s) ==
  IF s = <<>> THEN ""
  ELSE (IF Head(s).tag THEN "" ELSE Head(s).text) \o stripTags(Tail(s))

GfgLimit == 20

\* The while loop of getGeeksForGeeks over the matched items, from item i on.
\* The text runs of the model carry no surrounding whitespace, so trim() keeps
\* them as they are.
RECURSIVE GfgLoop(_, _, _, _)
GfgLoop(matches, i, items, query) ==
  IF i > Len(matches) THEN items
  ELSE LET title == stripTags(matches[i].title)
           link == stripTags(matches[i].link)
           desc == stripTags(matches[i].description)
           skip == /\ query # ""
                   /\ ~Includes(ToLowerCase(title), ToLowerCase(query))
                   /\ ~Includes(ToLowerCase(desc), ToLowerCase(query))
           pushed == Append(items, CourseRecord(Str(title), Str(desc), Null, Str(link),
                                                "GeeksforGeeks", TRUE))
       IN  IF skip THEN GfgLoop(matches, i + 1, items, query)
           ELSE IF Len(pushed) >= GfgLimit THEN pushed
           ELSE GfgLoop(matches, i + 1, pushed, query)

\* getGeeksForGeeks after its fetch resolved with ok = true and a body b.
getGeeksForGeeks(b, query) ==
  CASE b.kind = "unparsable" -> Threw
    [] OTHER -> Return(GfgLoop(b.items, 1, <<>>, query))

UdemyItem(c) ==
  CourseRecord(Or(c.title, c.name),
               Or(Or(c.headline, c.description), Str("")),
               Or(Or(c.image_480x270, c.image_240x135), Null),
               Or(c.url, Null),
               "Udemy", Truthy(c.coupon))

\* getUdemy after its fetch resolved with ok = true and a body b.
getUdemy(b) ==
  CASE b.kind = "unparsable" -> Threw
    [] b.kind = "null" -> Threw
    [] b.kind = "empty" -> Return(<<>>)
    [] OTHER -> MapOrThrow([i \in DOMAIN b.items |-> FALSE],
                           [i \in DOMAIN b.items |-> UdemyItem(b.items[i])])

Adapters == {"Coursera", "ClassCentral", "FreeCodeCamp", "GeeksForGeeks", "Udemy"}

AdapterBodies(a) ==
  CASE a = "Coursera" -> Bodies(CourseraRaw)
    [] a = "ClassCentral" -> Bodies(ClassCentralRaw)
    [] a = "FreeCodeCamp" -> FreeCodeCampBodies
    [] a = "GeeksForGeeks" -> Bodies(GeeksForGeeksRaw)
    [] OTHER -> Bodies(UdemyRaw)

\* What the try block of adapter a yields once the body b has been read.
OnBody(a, b, query) ==
  CASE a = "Coursera" -> getCoursera(b)
    [] a = "ClassCentral" -> getClassCentral(b)
    [] a = "FreeCodeCamp" -> getFreeCodeCamp(b)
    [] a = "GeeksForGeeks" -> getGeeksForGeeks(b, query)
    [] OTHER -> getUdemy(b)

\* if (!r.ok) return ...
NotOkValueEmpty(a) == <<>>
NotOkValue(a) == IF a = "FreeCodeCamp" THEN <<FccNotOkRecord>> ELSE <<>>

\* What the try block of adapter a yields when its fetch has settled.
OnFetch(a, outcome) ==
  IF outcome = "reject" THEN Threw ELSE Return(NotOkValue(a))

\* The value each catch block returns.
CatchValueEmpty(a) == <<>>
CatchValue(a) == IF a = "FreeCodeCamp" THEN <<FccCatchRecord>> ELSE <<>>

(***************************************************************************)
(* Promise states.                                                         *)
(***************************************************************************)
Pending == [status |-> "pending", value |-> <<>>]
Fulfilled(v) == [status |-> "fulfilled", value |-> v]
Rejected == [status |-> "rejected", value |-> <<>>]

\* An async adapter whose try block yielded t: the catch block turns a raise
\* into the adapter's fallback value, so the promise is fulfilled either way.
SettleWithoutCatch(a, t) ==
  IF t.threw THEN Rejected ELSE Fulfilled(t.value)
Settle(a, t) ==
  IF t.threw THEN Fulfilled(CatchValue(a)) ELSE Fulfilled(t.value)

(***************************************************************************)
(* Deduplication (the for loop of the handler).                            *)
(***************************************************************************)
\* A record for which c.url || c.title is falsy: its key comes from Math.random().
Keyless(c) == ~Truthy(c.url) /\ ~Truthy(c.title)

\* c.url || c.title || Math.random(), r being what Math.random() returns.
KeyValue(c, r) == IF Keyless(c) THEN r ELSE Or(c.url, c.title)

\* Math.random() is called once per keyless record the loop reaches; the loop
\* stops at the first record whose key value has no callable toString.
Raises(c) == ~Keyless(c) /\ ~CanToString(KeyValue(c, Undef))
Reached(all) == {i \in 1..Len(all) : \A j \in 1..(i - 1) : ~Raises(all[j])}
RandomCalls(all) == Cardinality({i \in Reached(all) : Keyless(all[i])})

\* seen.add(key)
SeenAddForgotten(seen, key) == seen
SeenAdd(seen, key) == seen \cup {key}

\* deduped.push(c)
DedupedUnshift(deduped, c) == <<c>> \o deduped
DedupedPush(deduped, c) == Append(deduped, c)

\* The loop from record i on; d is the number of Math.random() calls made so far.
RECURSIVE DedupeLoop(_, _, _, _, _, _)
DedupeLoop(all, draws, i, d, seen, deduped) ==
  IF i > Len(all) THEN [threw |-> FALSE, deduped |-> deduped]
  ELSE LET c == all[i]
           d2 == IF Keyless(c) THEN d + 1 ELSE d
           kv == KeyValue(c, IF Keyless(c) THEN draws[d2] ELSE Undef)
       IN  IF ~CanToString(kv) THEN [threw |-> TRUE, deduped |-> <<>>]
           ELSE IF JsToString(kv) \in seen
             THEN DedupeLoop(all, draws, i + 1, d2, seen, deduped)
             ELSE DedupeLoop(all, draws, i + 1, d2, SeenAdd(seen, JsToString(kv)),
                             DedupedPush(deduped, c))

Dedupe(all, draws) == DedupeLoop(all, draws, 1, 0, {}, <<>>)

(***************************************************************************)
(* The handler.                                                            *)
(***************************************************************************)
VARIABLES
  pc,           \* "idle", "waiting" (at await Promise.allSettled) or "done"
  q,            \* the trimmed query
  env,          \* process.env
  promises,     \* the promise list, as the adapters' names in list order
  ad,           \* per adapter: where it stands, whether its fetch rejected, answered
                \* not-ok or its try block raised (failed), and the state of its promise
  requests,     \* hosts a fetch was issued to
  settleOrder,  \* the adapters in the order their promises settled
  randoms,      \* what the Math.random() calls of the dedup loop returned
  res,          \* the response: status (0 = none sent), headers, body, error
  dpc, dIn, dRand, dOut   \* deduplication applied on its own to a combined sequence

hvars == <<pc, q, env, promises, ad, requests, settleOrder, randoms, res>>
dvars == <<dpc, dIn, dRand, dOut>>
vars == <<pc, q, env, promises, ad, requests, settleOrder, randoms, res, dpc, dIn, dRand, dOut>>

\* req.query.q as the platform hands it over, and its trimmed text.
RawQueries == {Undef, Str(""), Str("java"), Str(" java ")}
Trim(s) == IF s = " java " THEN "java" ELSE s

Envs == {[RAPIDAPI_KEY |-> k, RAPIDAPI_HOST |-> Undef] : k \in {Undef, Str(""), Str("key")}}

\* The host each adapter fetches from (the query only adds to the URL's search part).
Host(a, e) ==
  CASE a = "Coursera" -> "api.coursera.org"
    [] a = "ClassCentral" -> "www.classcentral.com"
    [] a = "FreeCodeCamp" -> "raw.githubusercontent.com"
    [] a = "GeeksForGeeks" -> "www.geeksforgeeks.org"
    [] OTHER -> JsToString(Or(e.RAPIDAPI_HOST, Str(DefaultHost)))

NoResponse == [status |-> 0, headers |-> {}, body |-> <<>>, error |-> ""]

SetHeader(h, name, value) == {p \in h : p[1] # name} \cup {<<name, value>>}

Range(f) == {f[i] : i \in DOMAIN f}

\* The promise list the handler builds.
BuildPromisesAlways(e) ==
  <<"Coursera", "ClassCentral", "FreeCodeCamp", "GeeksForGeeks", "Udemy">>
BuildPromises(e) ==
  <<"Coursera", "ClassCentral", "FreeCodeCamp", "GeeksForGeeks">>
    \o (IF Truthy(e.RAPIDAPI_KEY) THEN <<"Udemy">> ELSE <<>>)

\* Promise.allSettled(promises) resolves once no promise of the list is pending.
AnySettled(ps, a) == \E i \in 1..Len(ps) : a[ps[i]].promise.status # "pending"
AllSettled(ps, a) == \A i \in 1..Len(ps) : a[ps[i]].promise.status # "pending"

RECURSIVE Concat(_)
Concat(ss) == IF ss = <<>> THEN <<>> ELSE Head(ss) \o Concat(Tail(ss))

\* What await Promise.allSettled(promises) yields: one result per promise, in
\* the order of the list, whatever the order the promises settled in.
resultsInSettleOrder == [i \in 1..Len(settleOrder) |-> ad[settleOrder[i]].promise]
results == [i \in 1..Len(promises) |-> ad[promises[i]].promise]

\* results.filter(fulfilled).flatMap(value || []).filter(Boolean).  Every adapter
\* value is an array of objects, so neither || [] nor filter(Boolean) removes
\* anything.
Flatten(rs) ==
  Concat([i \in 1..Len(rs) |-> IF rs[i].status = "fulfilled" THEN rs[i].value ELSE <<>>])

\* The headers of the two responses.
SuccessHeaders ==
  SetHeader(
    SetHeader(
      SetHeader({}, "Cache-Control", "s-maxage=3600, stale-while-revalidate=59"),
      "Access-Control-Allow-Origin", "*"),
    "Content-Type", "application/json; charset=utf-8")
ErrorHeadersNone == {}
ErrorHeaders == SetHeader({}, "Access-Control-Allow-Origin", "*")

Init ==
  /\ pc = "idle"
  /\ q = ""
  /\ env \in Envs
  /\ promises = <<>>
  /\ ad = [a \in Adapters |-> [st |-> "idle", failed |-> FALSE, promise |-> Pending]]
  /\ requests = {}
  /\ settleOrder = <<>>
  /\ randoms = <<>>
  /\ res = NoResponse
  /\ dpc = "off" /\ dIn = <<>> /\ dRand = <<>> /\ dOut = [threw |-> FALSE, deduped |-> <<>>]

\* handler() up to await Promise.allSettled: every adapter of the list is called,
\* and each runs up to its await fetch(...).
Invoke ==
  /\ pc = "idle"
  /\ \E raw \in RawQueries : q' = Trim(JsToString(Or(raw, Str(""))))
  /\ promises' = BuildPromises(env)
  /\ ad' = [a \in Adapters |->
              IF a \in Range(promises')
                THEN [st |-> "fetch", failed |-> FALSE, promise |-> Pending]
                ELSE ad[a]]
  /\ requests' = {Host(a, env) : a \in Range(promises')}
  /\ pc' = "waiting"
  /\ UNCHANGED <<env, settleOrder, randoms, res, dvars>>

\* The fetch of adapter a settles.
FetchSettle(a) ==
  /\ ad[a].st = "fetch"
  /\ \E outcome \in FetchOutcomes :
       IF outcome = "ok"
         THEN /\ ad' = [ad EXCEPT ![a].st = "body"]
              /\ UNCHANGED settleOrder
         ELSE /\ ad' = [ad EXCEPT ![a] = [st |-> "settled", failed |-> TRUE,
                                          promise |-> Settle(a, OnFetch(a, outcome))]]
              /\ settleOrder' = Append(settleOrder, a)
  /\ UNCHANGED <<pc, q, env, promises, requests, randoms, res, dvars>>

\* r.json() / r.text() of adapter a settles and the adapter runs to its end.
BodySettle(a) ==
  /\ ad[a].st = "body"
  /\ \E b \in AdapterBodies(a) :
       ad' = [ad EXCEPT ![a] = [st |-> "settled", failed |-> OnBody(a, b, q).threw,
                                promise |-> Settle(a, OnBody(a, b, q))]]
  /\ settleOrder' = Append(settleOrder, a)
  /\ UNCHANGED <<pc, q, env, promises, requests, randoms, res, dvars>>

\* The rest of the try block after the await, and the catch block.
Respond ==
  /\ pc = "waiting"
  /\ AllSettled(promises, ad)
  /\ LET allCourses == Flatten(results)
     IN  \E draws \in [1..RandomCalls(allCourses) -> RandomVals] :
           LET r == Dedupe(allCourses, draws)
           IN  /\ randoms' = draws
               /\ res' = IF r.threw
                           THEN [status |-> 500,
                                 headers |-> ErrorHeaders,
                                 body |-> <<>>,
                                 error |-> "Failed to fetch aggregated courses"]
                           ELSE [status |-> 200,
                                 headers |-> SuccessHeaders,
                                 body |-> r.deduped,
                                 error |-> ""]
  /\ pc' = "done"
  /\ UNCHANGED <<q, env, promises, ad, requests, settleOrder, dvars>>

Next ==
  \/ Invoke
  \/ \E a \in Adapters : FetchSettle(a)
  \/ \E a \in Adapters : BodySettle(a)
  \/ Respond

Spec == Init /\ [][Next]_vars

(***************************************************************************)
(* The deduplication on its own, applied to any combined sequence.         *)
(***************************************************************************)
DedupRecords ==
  { CourseRecord(Str("A"), Str(""), Null, Str("https://example.org/c1"), "Coursera", TRUE),
    CourseRecord(Str("B"), Str(""), Null, Str("https://example.org/c1"), "Udemy", FALSE),
    CourseRecord(Str("A"), Str(""), Null, Null, "Class Central", TRUE),
    CourseRecord(Str("A"), Str(""), Null, Null, "Udemy", TRUE),
    CourseRecord(Undef, Str(""), Null, Null, "Coursera", TRUE),
    CourseRecord(Str(""), Str(""), Null, Null, "GeeksforGeeks", TRUE),
    CourseRecord(Str("0.5"), Str(""), Null, Null, "Class Central", TRUE),
    CourseRecord(Str("Odd"), Str(""), Null, BadObj, "Class Central", TRUE) }

InitDedup ==
  /\ pc = "idle"
  /\ q = ""
  /\ env = [RAPIDAPI_KEY |-> Undef, RAPIDAPI_HOST |-> Undef]
  /\ promises = <<>>
  /\ ad = [a \in Adapters |-> [st |-> "idle", failed |-> FALSE, promise |-> Pending]]
  /\ requests = {}
  /\ settleOrder = <<>>
  /\ randoms = <<>>
  /\ res = NoResponse
  /\ dpc = "ready"
  /\ dIn \in SeqUpTo(DedupRecords, MaxLen)
  /\ dRand = <<>>
  /\ dOut = [threw |-> FALSE, deduped |-> <<>>]

\* The for loop run over dIn.
DedupApply ==
  /\ dpc = "ready"
  /\ \E draws \in [1..RandomCalls(dIn) -> RandomVals] :
       /\ dRand' = draws
       /\ dOut' = Dedupe(dIn, draws)
  /\ dpc' = "done"
  /\ UNCHANGED <<dIn, hvars>>

NextDedup == DedupApply

SpecDedup == InitDedup /\ [][NextDedup]_vars

(***************************************************************************)
(* Properties of the handler (checked under Spec).                         *)
(***************************************************************************)
Selected == Range(promises)
AllFailed == pc # "idle" /\ \A a \in Selected : ad[a].st = "settled" /\ ad[a].failed
BodyRecords == Range(res.body)
FccInBody == {i \in DOMAIN res.body : res.body[i].platform = "freeCodeCamp"}
FccFallbacks == {FccNotOkRecord, FccCatchRecord}
HasHeader(name, value) == <<name, value>> \in res.headers
HasCacheControl == HasHeader("Cache-Control", "s-maxage=3600, stale-while-revalidate=59")
HasAllowOrigin == HasHeader("Access-Control-Allow-Origin", "*")
HasContentType == HasHeader("Content-Type", "application/json; charset=utf-8")
Position(s, x) == CHOOSE i \in DOMAIN s : s[i] = x
\* The key of a record that has one without Math.random().
NonRandomKey(c) == JsToString(KeyValue(c, Undef))

\* C1, as claimed: when every selected adapter has failed, the response is
\* status 200 with an empty array.
C1_AllFailEmptyArray ==
  (pc = "done" /\ AllFailed) => (res.status = 200 /\ res.body = <<>>)

\* C1, amended: when every selected adapter has failed, the response is status
\* 200 and its body is exactly the one fallback record of the freeCodeCamp
\* adapter; the other adapters contribute nothing.
C1_AllFailOnlyFallback ==
  (pc = "done" /\ AllFailed) =>
    /\ res.status = 200
    /\ Len(res.body) = 1
    /\ res.body[1] \in FccFallbacks
    /\ res.body = ad["FreeCodeCamp"].promise.value

C1_Witness ==
  pc = "done" /\ AllFailed /\ "Udemy" \in Selected /\ res.status = 200

\* C2: once the handler has started, every adapter of the promise list has been
\* started, and a response has been sent only if every adapter of the list has
\* settled; no response exists while one of them is still pending.
C2_RespondsAfterAllSettled ==
  /\ pc # "idle" =>
       /\ Len(promises) >= 4
       /\ \A a \in Selected : ad[a].st # "idle"
  /\ (res.status # 0 \/ pc = "done") =>
       \A a \in Selected : ad[a].st = "settled" /\ ad[a].promise.status # "pending"
  /\ pc = "waiting" => res = NoResponse

\* The first adapter to settle failed, four more settled after it, and a record
\* of the last one to settle is in the body.
C2_Witness ==
  /\ pc = "done" /\ res.status = 200
  /\ Len(settleOrder) = 5
  /\ ad[settleOrder[1]].failed
  /\ ~ad[settleOrder[5]].failed
  /\ \E c \in Range(ad[settleOrder[5]].promise.value) : c \in BodyRecords

\* C5: the Udemy adapter is in the promise list, is started and its host is
\* fetched exactly when RAPIDAPI_KEY is present and non-empty; without the key
\* no request goes to the Udemy host and no body record has platform "Udemy".
C5_UdemyOnlyWithKey ==
  /\ pc # "idle" => ("Udemy" \in Selected <=> Truthy(env.RAPIDAPI_KEY))
  /\ ad["Udemy"].st # "idle" <=> (pc # "idle" /\ Truthy(env.RAPIDAPI_KEY))
  /\ ~Truthy(env.RAPIDAPI_KEY) =>
       /\ Host("Udemy", env) \notin requests
       /\ \A c \in BodyRecords : c.platform # "Udemy"

C5_Witness ==
  /\ env.RAPIDAPI_KEY = Str("")
  /\ pc = "done" /\ res.status = 200
  /\ Len(res.body) >= 2

\* C6, as claimed: every response, status 200 or 500, carries the Cache-Control
\* and the Access-Control-Allow-Origin header, and the success response the
\* Content-Type header.
C6_BothHeadersAlways ==
  res.status # 0 =>
    /\ HasCacheControl
    /\ HasAllowOrigin
    /\ res.status = 200 => HasContentType

\* C6, amended: every response carries Access-Control-Allow-Origin: *; every
\* status-200 response also carries the Cache-Control and Content-Type headers.
C6_AllowOriginAlways ==
  res.status # 0 =>
    /\ HasAllowOrigin
    /\ res.status = 200 => (HasCacheControl /\ HasContentType)

C6_Witness == res.status = 500 /\ pc = "done"

\* Some record of an adapter listed before freeCodeCamp has the dedup key of
\* the freeCodeCamp records.
EarlierHasFccKey ==
  \E a \in {"Coursera", "ClassCentral"} :
    \E c \in Range(ad[a].promise.value) :
      ~Keyless(c) /\ CanToString(KeyValue(c, Undef)) /\ NonRandomKey(c) = FccUrl

FccUnreachable ==
  pc = "done" /\ q = "" /\ ad["FreeCodeCamp"].failed /\ res.status = 200

\* C7, as claimed: with an empty query and the freeCodeCamp source failing, the
\* body holds exactly one freeCodeCamp record, carrying a fallback title.
C7_ExactlyOneFallback ==
  FccUnreachable =>
    /\ Cardinality(FccInBody) = 1
    /\ \A i \in FccInBody :
         res.body[i].title \in {Str("freeCodeCamp Learn"), Str("freeCodeCamp: Learn")}

\* C7, amended: with an empty query and the freeCodeCamp source failing, a
\* status-200 body holds at most one freeCodeCamp record; it holds exactly one,
\* the adapter's fallback record, exactly when no record of an adapter listed
\* earlier has the dedup key of that record (its url).
C7_FallbackUnlessShadowed ==
  FccUnreachable =>
    /\ Cardinality(FccInBody) <= 1
    /\ ~EarlierHasFccKey <=>
         /\ Cardinality(FccInBody) = 1
         /\ \A i \in FccInBody :
              /\ res.body[i] \in FccFallbacks
              /\ <<res.body[i]>> = ad["FreeCodeCamp"].promise.value

C7_Witness == FccUnreachable /\ EarlierHasFccKey /\ FccInBody = {}

\* C8: every settled adapter promise is fulfilled, never rejected; an adapter
\* whose fetch rejected or answered not-ok, or whose try block raised, is
\* fulfilled with its fallback: the empty list, and for freeCodeCamp a list of
\* one static record.
C8_AdaptersNeverReject ==
  /\ \A a \in Adapters :
       ad[a].st = "settled" =>
         /\ ad[a].promise.status = "fulfilled"
         /\ ad[a].failed =>
              IF a = "FreeCodeCamp"
                THEN ad[a].promise.value \in {<<FccNotOkRecord>>, <<FccCatchRecord>>}
                ELSE ad[a].promise.value = <<>>
  /\ pc = "done" => \A i \in DOMAIN results : results[i].status = "fulfilled"

C8_Witness == \A a \in Adapters : ad[a].st = "settled" /\ ad[a].failed

\* The adapters' values concatenated in the fixed list order.
ValueOf(a) ==
  IF a \in Selected /\ ad[a].promise.status = "fulfilled" THEN ad[a].promise.value ELSE <<>>
InListOrder ==
  ValueOf("Coursera") \o ValueOf("ClassCentral") \o ValueOf("FreeCodeCamp")
    \o ValueOf("GeeksForGeeks") \o ValueOf("Udemy")

\* C10: the response is a function of the adapters' values (and of what
\* Math.random() returned), not of the order the adapters settled in: it is the
\* deduplication of the values concatenated in list order.
C10_OrderIndependent ==
  pc = "done" =>
    /\ Len(randoms) = RandomCalls(InListOrder)
    /\ LET r == Dedupe(InListOrder, randoms)
       IN  IF r.threw THEN res.status = 500
           ELSE res.status = 200 /\ res.body = r.deduped

\* freeCodeCamp settled before Class Central, both hold a record with the same
\* key, and the survivor is the one of Class Central, which is earlier in the list.
C10_Witness ==
  /\ pc = "done" /\ res.status = 200
  /\ Position(settleOrder, "FreeCodeCamp") < Position(settleOrder, "ClassCentral")
  /\ \E c \in Range(ad["ClassCentral"].promise.value) :
       c.url = Str(FccUrl) /\ c \in BodyRecords
  /\ FccInBody = {}

(***************************************************************************)
(* Properties of the deduplication (checked under SpecDedup).              *)
(***************************************************************************)
DedupDone == dpc = "done" /\ ~dOut.threw

\* The key the loop computes for record i of all.
DrawIndex(all, i) == Cardinality({j \in 1..i : Keyless(all[j])})
KeyAt(all, draws, i) ==
  JsToString(KeyValue(all[i], IF Keyless(all[i]) THEN draws[DrawIndex(all, i)] ELSE Undef))
FirstOccurrences(all, draws) ==
  {i \in DOMAIN all : \A j \in 1..(i - 1) : KeyAt(all, draws, j) # KeyAt(all, draws, i)}

RECURSIVE SubSeqAt(_, _, _)
SubSeqAt(all, I, i) ==
  IF i > Len(all) THEN <<>>
  ELSE (IF i \in I THEN <<all[i]>> ELSE <<>>) \o SubSeqAt(all, I, i + 1)

\* C3: no two records of the output that have a non-random key (url, else
\* title) have the same one.
C3_NoSharedKey ==
  DedupDone =>
    \A i, j \in DOMAIN dOut.deduped :
      (i < j /\ ~Keyless(dOut.deduped[i]) /\ ~Keyless(dOut.deduped[j]))
        => NonRandomKey(dOut.deduped[i]) # NonRandomKey(dOut.deduped[j])

C3_Witness ==
  /\ DedupDone
  /\ Len(dIn) = 3
  /\ \E i, j \in DOMAIN dIn :
       /\ i < j /\ dIn[i] # dIn[j]
       /\ ~Keyless(dIn[i]) /\ ~Keyless(dIn[j])
       /\ NonRandomKey(dIn[i]) = NonRandomKey(dIn[j])
  /\ Len(dOut.deduped) = 2
  /\ \A k \in DOMAIN dOut.deduped : ~Keyless(dOut.deduped[k])

\* C4: the output is the subsequence of the combined sequence made of the first
\* occurrence of each key, in order; of the records with one url at most one is
\* in the output, and it is the first of them, and likewise for the url-less
\* records with one title.
C4_FirstOccurrences ==
  DedupDone =>
    /\ dOut.deduped = SubSeqAt(dIn, FirstOccurrences(dIn, dRand), 1)
    /\ \A i \in DOMAIN dIn :
         Truthy(dIn[i].url) =>
           LET same == {k \in DOMAIN dIn : dIn[k].url = dIn[i].url}
               first == CHOOSE k \in same : \A m \in same : k <= m
               kept == {k \in DOMAIN dOut.deduped : dOut.deduped[k].url = dIn[i].url}
           IN  /\ Cardinality(kept) <= 1
               /\ \A k \in kept : dOut.deduped[k] = dIn[first]
    /\ \A i \in DOMAIN dIn :
         (~Truthy(dIn[i].url) /\ Truthy(dIn[i].title)) =>
           LET same == {k \in DOMAIN dIn :
                          ~Truthy(dIn[k].url) /\ dIn[k].title = dIn[i].title}
               first == CHOOSE k \in same : \A m \in same : k <= m
               kept == {k \in DOMAIN dOut.deduped :
                          /\ ~Truthy(dOut.deduped[k].url)
                          /\ dOut.deduped[k].title = dIn[i].title}
           IN  /\ Cardinality(kept) <= 1
               /\ \A k \in kept : dOut.deduped[k] = dIn[first]

\* Two different records with one url around a third record: the first and the
\* third record stay, in that order.
C4_Witness ==
  /\ DedupDone
  /\ Len(dIn) = 3
  /\ Truthy(dIn[1].url) /\ dIn[1].url = dIn[3].url /\ dIn[1] # dIn[3]
  /\ dOut.deduped = <<dIn[1], dIn[2]>>

\* C9, as claimed: every record with neither url nor title is in the output, as
\* often as in the combined sequence.
C9_KeylessAllKept ==
  DedupDone =>
    Cardinality({k \in DOMAIN dOut.deduped : Keyless(dOut.deduped[k])})
      = Cardinality({i \in DOMAIN dIn : Keyless(dIn[i])})

====
